---- MODULE Spec2Model ----
(***************************************************************************)
(* Concurrency core of multi-agent-workshop:                               *)
(*   Shared<T>            crates/multi-agent-sync/src/shared.rs            *)
(*   MessageChannel<T>    crates/multi-agent-sync/src/message/             *)
(*   MultiAgentRuntimeManager  crates/multi-agent-runtime/src/manager.rs   *)
(*                                                                         *)
(* Shared<T> wraps arc_swap::ArcSwap<T>; an Arc<T> is modelled as an index *)
(* into the sequence of allocated snapshots (pointer identity), the        *)
(* ArcSwap as the index currently installed.                               *)
(***************************************************************************)
EXTENDS Integers, Sequences, FiniteSets, TLC

\* ---------------------------------------------------------------- bounds
NumThreads == 2
MaxOps == 3
IncPerThread == 2
NumSenders == 2
MaxCapacity == 2
MaxSends == 4
MaxRecvCalls == 3
MaxTicks == 2
MaxFrames == 2
MaxStepSends == 1
MaxFrameSends == 1
\* MultiAgentRuntimeManager::run builds both channels with capacity 100; the
\* model runs them with a capacity small enough to fill.
RunCapacity == 1
\* Ticks the paced worker loop is followed for.
MaxPaceTicks == 2

\* let timeout = Duration::from_secs(5);
timeout == 5

\* Duration::from_secs counts seconds; the clocks count milliseconds.
MillisPerSec == 1000

\* thread::sleep(Duration::from_millis(10)) of the shutdown loop.
PollInterval == 10

\* Messages a step function panics with.
PanicPayloads == {"boom", "agent out of range"}

Threads == 1..NumThreads

\* The values the threads write: store(MockData::new(v, v.to_string())) for v
\* in StoreValues, update(set(i)) for i in SetValues.
StoreValues == {3}
SetValues == {1, 2}

\* The clones of the two handles of a channel, one per thread using it.
SenderIds == 1..NumSenders
ReceiverIds == {1, 2}

\* ------------------------------------------------------------ MockData
\* u8::to_string / i32::to_string: the decimal digits, most significant first.
RECURSIVE to_string(_)
to_string(n) ==
    IF n < 10 THEN <<n>> ELSE Append(to_string(n \div 10), n % 10)

\* MockData::new(data_number, data_string)
MockData(n, s) == [data_number |-> n, data_string |-> s]

\* The closures the tests pass to update():
\*   inc     |data| data.data_number += 1
\*   set(i)  |data| { data.data_number = i; data.data_string = i.to_string(); }
IncClosure == [kind |-> "inc", arg |-> 0]
SetClosure(i) == [kind |-> "set", arg |-> i]
NoClosure == [kind |-> "none", arg |-> 0]

\* Number of statements of a closure body.
ClosureLen(f) == IF f.kind = "set" THEN 2 ELSE 1

\* The k-th statement of closure f, run on the value d.
ClosureStmt(f, k, d) ==
    CASE f.kind = "inc" -> [d EXCEPT !.data_number = @ + 1]
      [] f.kind = "set" /\ k = 1 -> [d EXCEPT !.data_number = f.arg]
      [] f.kind = "set" /\ k = 2 -> [d EXCEPT !.data_string = to_string(f.arg)]
      [] OTHER -> d

\* The whole closure f run on d.
RECURSIVE ClosureRun(_, _, _)
ClosureRun(f, k, d) ==
    IF k > ClosureLen(f) THEN d ELSE ClosureRun(f, k + 1, ClosureStmt(f, k, d))

\* ---------------------------------------------------------- Shared<T>
\* Shared::new(data): ArcSwap::from_pointee(data)
SharedNew(data) == [arcs |-> <<data>>, inner |-> 1]

\* Shared::load(): a guard on the Arc currently installed.
SharedLoad(cell) == cell.inner

\* Dereferencing a guard (or an Arc).
Deref(cell, p) == cell.arcs[p]

\* A store that writes through the installed pointer instead of swapping it.
SharedStoreInPlace(cell, data) == [cell EXCEPT !.arcs[cell.inner] = data]

\* A store that allocates the new Arc but never installs it.
SharedStoreNoSwap(cell, data) == [cell EXCEPT !.arcs = Append(@, data)]

\* Shared::store(data): inner.store(Arc::new(data)), an atomic pointer swap.
SharedStore(cell, data) ==
    [arcs |-> Append(cell.arcs, data), inner |-> Len(cell.arcs) + 1]

\* A compare_and_swap that installs without comparing (load-modify-store).
CompareAndSwapBlind(cell, c, data) ==
    [cell |-> SharedStore(cell, data), prev |-> c]

\* A compare_and_swap that can fail with the expected pointer installed,
\* handing back a stale pointer.
CompareAndSwapSpurious(cell, c, data) ==
    IF cell.inner = c /\ c > 1
    THEN [cell |-> cell, prev |-> 1]
    ELSE IF cell.inner = c
    THEN [cell |-> SharedStore(cell, data), prev |-> cell.inner]
    ELSE [cell |-> cell, prev |-> cell.inner]

\* ArcSwap::compare_and_swap(cur, new): installs new only if cur is still the
\* installed pointer; returns the pointer that was installed before the call.
CompareAndSwap(cell, c, data) ==
    IF cell.inner = c
    THEN [cell |-> SharedStore(cell, data), prev |-> cell.inner]
    ELSE [cell |-> cell, prev |-> cell.inner]

\* A closure statement that mutates the loaded snapshot through the pointer.
RcuStmtInPlace(cell, c, nd, f, k) ==
    [cell |-> [cell EXCEPT !.arcs[c] = ClosureStmt(f, k, @)],
     new_data |-> ClosureStmt(f, k, nd)]

\* One statement of f run inside update()'s rcu closure: it acts on new_data,
\* the private clone of *current_data, never on the shared snapshot.
RcuStmt(cell, c, nd, f, k) ==
    [cell |-> cell, new_data |-> ClosureStmt(f, k, nd)]


\* ------------------------------------------------- MessageChannel<T>
\* The channel is crossbeam_channel::bounded(capacity): one queue shared by
\* all clones of the two handles, and the number of live handles of each half.
\* Messages are numbered from 1; None is Option::None.
None == 0
Unlimited == 0 - 1

\* MessageChannel::new(capacity).split()
MessageChannelNew(capacity, ns, nr) ==
    [queue |-> <<>>, cap |-> capacity, senders |-> ns, receivers |-> nr]

\* A send that waits for room (crossbeam's send instead of try_send): on a
\* full queue it has not returned.
SendBlocking(ch, m) ==
    IF ch.receivers = 0 THEN [ch |-> ch, res |-> "MessageSenderDisconnected"]
    ELSE IF Len(ch.queue) >= ch.cap THEN [ch |-> ch, res |-> "Blocked"]
    ELSE [ch |-> [ch EXCEPT !.queue = Append(@, m)], res |-> "Ok"]

\* A try_send that accepts one message more than the capacity.
TrySendOffByOne(ch, m) ==
    IF ch.receivers = 0 THEN [ch |-> ch, res |-> "MessageSenderDisconnected"]
    ELSE IF Len(ch.queue) > ch.cap THEN [ch |-> ch, res |-> "MessageSenderFull"]
    ELSE [ch |-> [ch EXCEPT !.queue = Append(@, m)], res |-> "Ok"]

\* A try_send that, when full, makes room by overwriting the oldest message.
TrySendOverwrite(ch, m) ==
    IF ch.receivers = 0 THEN [ch |-> ch, res |-> "MessageSenderDisconnected"]
    ELSE IF Len(ch.queue) >= ch.cap /\ ch.cap > 0
    THEN [ch |-> [ch EXCEPT !.queue = Append(Tail(@), m)], res |-> "Ok"]
    ELSE IF ch.cap = 0 THEN [ch |-> ch, res |-> "MessageSenderFull"]
    ELSE [ch |-> [ch EXCEPT !.queue = Append(@, m)], res |-> "Ok"]

\* A try_send that looks at the occupancy before it looks for receivers.
TrySendFullFirst(ch, m) ==
    IF Len(ch.queue) >= ch.cap THEN [ch |-> ch, res |-> "MessageSenderFull"]
    ELSE IF ch.receivers = 0 THEN [ch |-> ch, res |-> "MessageSenderDisconnected"]
    ELSE [ch |-> [ch EXCEPT !.queue = Append(@, m)], res |-> "Ok"]

\* MessageSender::send(message): inner.try_send(message), its error mapped to
\* MessageSenderFull / MessageSenderDisconnected.  try_send reports a channel
\* without receivers as disconnected before it looks at the occupancy.
MessageSenderSend(ch, m) ==
    IF ch.receivers = 0 THEN [ch |-> ch, res |-> "MessageSenderDisconnected"]
    ELSE IF Len(ch.queue) >= ch.cap THEN [ch |-> ch, res |-> "MessageSenderFull"]
    ELSE [ch |-> [ch EXCEPT !.queue = Append(@, m)], res |-> "Ok"]

\* What send can return to its caller.
SendResults == {"Ok", "MessageSenderFull", "MessageSenderDisconnected"}

\* A send_lossy that makes room on a full queue by dropping the oldest message.
SendLossyOverwrite(ch, m) == TrySendOverwrite(ch, m).ch

\* A send_lossy that never looks whether a receiver is left.
SendLossyNoReceiverCheck(ch, m) ==
    IF Len(ch.queue) >= ch.cap THEN ch ELSE [ch EXCEPT !.queue = Append(@, m)]

\* MessageSender::send_lossy(message): let _ = self.send(message);
MessageSenderSendLossy(ch, m) == MessageSenderSend(ch, m).ch

\* A try_recv that takes the newest message instead of the oldest.
TryRecvNewest(ch) ==
    IF ch.queue = <<>> THEN [ch |-> ch, msg |-> None]
    ELSE [ch |-> [ch EXCEPT !.queue = SubSeq(@, 1, Len(@) - 1)],
          msg |-> ch.queue[Len(ch.queue)]]

\* A try_recv that returns the oldest message and leaves it queued.
TryRecvPeek(ch) ==
    IF ch.queue = <<>> THEN [ch |-> ch, msg |-> None]
    ELSE [ch |-> ch, msg |-> Head(ch.queue)]

\* A try_recv that returns the oldest message and drops the one behind it too.
TryRecvSkip(ch) ==
    IF ch.queue = <<>> THEN [ch |-> ch, msg |-> None]
    ELSE [ch |-> [ch EXCEPT !.queue = IF Len(@) >= 2 THEN Tail(Tail(@)) ELSE <<>>],
          msg |-> Head(ch.queue)]

\* MessageReceiver::try_recv(): inner.try_recv().ok(); Empty and Disconnected
\* both become None.  Also one step of the try_iter() behind drain().
MessageReceiverTryRecv(ch) ==
    IF ch.queue = <<>> THEN [ch |-> ch, msg |-> None]
    ELSE [ch |-> [ch EXCEPT !.queue = Tail(@)], msg |-> Head(ch.queue)]

\* A pending() that reports the free room instead of the occupancy.
PendingFree(ch) == ch.cap - Len(ch.queue)

\* MessageSender::pending() / capacity() / is_empty() / is_full(): inner.len(),
\* inner.capacity() (Some(cap) for a bounded channel), inner.is_empty(),
\* inner.is_full().
Pending(ch) == Len(ch.queue)
Capacity(ch) == ch.cap
IsEmpty(ch) == Len(ch.queue) = 0
IsFull(ch) == Len(ch.queue) = ch.cap

\* MessageReceiver::pending() / capacity() / is_empty() / is_full(): the same
\* four calls on the Receiver of the same channel.
ReceiverPending(ch) == Len(ch.queue)
ReceiverCapacity(ch) == ch.cap
ReceiverIsEmpty(ch) == Len(ch.queue) = 0
ReceiverIsFull(ch) == Len(ch.queue) = ch.cap

\* ------------------------------------------------------------- state
VARIABLES
    shared,      \* the Shared<MockData> cell all threads hold a clone of
    tpc,         \* per thread: "idle", "rcu_f" (inside f), "rcu_cas"
    fn,          \* per thread: the closure of the update() call in progress
    fstep,       \* per thread: next statement of fn to run
    cur,         \* per thread: rcu's `cur`, the pointer loaded
    new_data,    \* per thread: the clone f works on
    guard,       \* per thread: the guard held (0: none)
    ops,         \* per thread: calls started
    seen,        \* history: per thread, the value its guard showed at load()
    floor,       \* history: per thread, the writes completed when it loaded
    log,         \* history: the completed store()/update() calls, in order
    attempts,    \* history: per thread, runs of f in the update() in progress
    scenario     \* "mixed": loads, stores, set updates; "counter": inc updates

sharedVars == <<shared, tpc, fn, fstep, cur, new_data, guard, ops, seen, floor,
                log, attempts, scenario>>

VARIABLES
    channel,        \* the MessageChannel: queue, capacity, live handles
    given_capacity, \* history: the capacity given to MessageChannel::new
    s_alive,        \* per sender handle: not dropped yet
    r_alive,        \* per receiver handle: not dropped yet
    rpc,            \* per receiver: "idle" or "draining" (inside drain's collect)
    buf,            \* per receiver: the Vec being collected
    take,           \* per receiver: items take(limit) still lets through
    delivered,      \* history: per receiver, all messages returned to it
    accepted,       \* history: messages the channel took, in order
    rejected,       \* history: messages the channel refused
    next_msg,       \* the number of the next message sent
    send_result,    \* what the most recent send call returned to its caller
    recv_calls,     \* receive calls started so far
    last_recv       \* history: the most recent receive call started

chanVars == <<channel, given_capacity, s_alive, r_alive, rpc, buf, take,
              delivered, accepted, rejected, next_msg, send_result, recv_calls,
              last_recv>>

VARIABLES
    simulation_data, \* Shared<SimulationData>: the snapshot the worker publishes
    sim_channel,     \* MessageChannel worker -> consumer (sim_sender, gui_receiver)
    gui_channel,     \* MessageChannel consumer -> worker (gui_sender, sim_receiver)
    stop,            \* the AtomicBool behind stop_gui / stop_simulator
    wpc,             \* worker thread: where it is in its loop
    cpc,             \* caller thread: where it is in gui.run() and in run()
    w_buf,           \* worker: the Vec its drain() is collecting
    c_buf,           \* consumer: the Vec its drain() is collecting
    step_sent,       \* worker: messages the step function has sent this tick
    frame_sent,      \* consumer: messages the frame has sent
    ticks,           \* worker: ticks completed
    frames,          \* consumer: frames completed
    out_next,        \* the number of the next message the step function sends
    out_refused,     \* history: worker messages the channel refused
    gui_seen,        \* consumer: the snapshot its last load() showed
    worker_result,   \* what the worker thread's JoinHandle holds
    timed_out,       \* start.elapsed() >= timeout
    run_result,      \* what run() returned: "none" while it runs, else the variant
    run_detail,      \* what the Error returned by run() carries
    joined,          \* simulation_thread.join() was called
    steps_after_stop,  \* history: step invocations begun with the flag set
    stores_after_stop, \* history: snapshots published with the flag set
    gui_got,         \* history: the messages the consumer's drains returned
    panic            \* history: the worker's panic (payload, frames done by then)

runVars == <<simulation_data, sim_channel, gui_channel, stop, wpc, cpc, w_buf,
             c_buf, step_sent, frame_sent, ticks, frames, out_next, out_refused,
             gui_seen, worker_result, timed_out, run_result, run_detail, panic,
             joined, steps_after_stop, stores_after_stop, gui_got>>

\* The clocks of run(): the worker loop's pacing and the shutdown loop's
\* polling, in milliseconds.
VARIABLES
    hz,              \* Simulation::FREQUENCY_IN_HZ of the simulation being run
    clock,           \* Instant::now() of the worker, ms since its thread began
    ppc,             \* paced worker: "check", "work", "sleep" or "exited"
    delta,           \* the worker's `delta`: the Instant the tick began
    stop_at,         \* history: the clock when the stop flag was stored
    seen_at,         \* history: the clock when the worker's check saw it
    tick_log,        \* history: per tick, its start, time spent and sleep
    start_elapsed,   \* start.elapsed() of the shutdown loop, in ms
    rounds           \* history: thread::sleep calls of the shutdown loop

timeVars == <<hz, clock, ppc, delta, stop_at, seen_at, tick_log, start_elapsed,
             rounds>>

vars == <<sharedVars, chanVars, runVars, timeVars>>

InitialData == MockData(0, to_string(0))

\* A completed write call: who made it, the closure (update) and how often it
\* ran, the value the cell held just before the write took effect and the
\* value written (store: the argument; update: what the cell holds after it).
LogEntry(kind, t, f, runs, before, written) ==
    [kind |-> kind, by |-> t, f |-> f, runs |-> runs, before |-> before,
     written |-> written]

InitChannel(capacity) ==
    /\ channel = MessageChannelNew(capacity, Cardinality(SenderIds), Cardinality(ReceiverIds))
    /\ given_capacity = capacity
    /\ s_alive = [s \in SenderIds |-> TRUE]
    /\ r_alive = [r \in ReceiverIds |-> TRUE]
    /\ rpc = [r \in ReceiverIds |-> "idle"]
    /\ buf = [r \in ReceiverIds |-> <<>>]
    /\ take = [r \in ReceiverIds |-> 0]
    /\ delivered = [r \in ReceiverIds |-> <<>>]
    /\ accepted = <<>>
    /\ rejected = {}
    /\ next_msg = 1
    /\ send_result = "none"
    /\ recv_calls = 0
    /\ last_recv = "none"

\* What an Error carries: ShutdownTimeout its timeout (in seconds),
\* SimulationPanic a String (here the sequence of its parts).
NoDetail == [timeout |-> 0, description |-> <<>>]
NoPanic == [payload |-> "none", frames |-> 0]

\* run() up to thread::spawn: the shared cell holds
\* SimulationData::default(), both channels are new, the stop flag is false.
InitRuntime ==
    /\ simulation_data = SharedNew(0)
    /\ sim_channel = MessageChannelNew(RunCapacity, 1, 1)
    /\ gui_channel = MessageChannelNew(RunCapacity, 1, 1)
    /\ stop = FALSE
    /\ wpc = "check_stop"
    /\ cpc = "frame_start"
    /\ w_buf = <<>>
    /\ c_buf = <<>>
    /\ step_sent = 0
    /\ frame_sent = 0
    /\ ticks = 0
    /\ frames = 0
    /\ out_next = 1
    /\ out_refused = {}
    /\ gui_seen = 0
    /\ worker_result = "running"
    /\ timed_out = FALSE
    /\ run_result = "none"
    /\ run_detail = NoDetail
    /\ panic = NoPanic
    /\ joined = FALSE
    /\ steps_after_stop = 0
    /\ stores_after_stop = 0
    /\ gui_got = <<>>

\* No stop request yet.
NotYet == 0 - 1

\* The trait's default FREQUENCY_IN_HZ.
DefaultHz == 30

InitTime(f) ==
    /\ hz = f
    /\ clock = 0
    /\ ppc = "check"
    /\ delta = 0
    /\ stop_at = NotYet
    /\ seen_at = NotYet
    /\ tick_log = <<>>
    /\ start_elapsed = 0
    /\ rounds = 0

InitShared(sc) ==
    /\ shared = SharedNew(InitialData)
    /\ tpc = [t \in Threads |-> "idle"]
    /\ fn = [t \in Threads |-> NoClosure]
    /\ fstep = [t \in Threads |-> 1]
    /\ cur = [t \in Threads |-> 0]
    /\ new_data = [t \in Threads |-> InitialData]
    /\ guard = [t \in Threads |-> 0]
    /\ ops = [t \in Threads |-> 0]
    /\ seen = [t \in Threads |-> InitialData]
    /\ floor = [t \in Threads |-> 0]
    /\ log = <<>>
    /\ attempts = [t \in Threads |-> 0]
    /\ scenario = sc

\* Operations started so far by the threads of S.
RECURSIVE TotalOps(_)
TotalOps(S) ==
    IF S = {} THEN 0
    ELSE LET t == CHOOSE x \in S : TRUE IN ops[t] + TotalOps(S \ {t})

\* A thread starts its next call: in the counter scenario every thread makes
\* IncPerThread calls, in the mixed one the threads make MaxOps calls in all.
CanStart(t) ==
    /\ tpc[t] = "idle"
    /\ IF scenario = "counter" THEN ops[t] < IncPerThread
                                ELSE TotalOps(Threads) < MaxOps

\* let data = shared.load();
Load(t) ==
    /\ CanStart(t)
    /\ scenario = "mixed"
    /\ guard' = [guard EXCEPT ![t] = SharedLoad(shared)]
    /\ seen' = [seen EXCEPT ![t] = Deref(shared, SharedLoad(shared))]
    /\ floor' = [floor EXCEPT ![t] = Len(log)]
    /\ ops' = [ops EXCEPT ![t] = @ + 1]
    /\ UNCHANGED <<shared, tpc, fn, fstep, cur, new_data, log, attempts,
                   scenario>>
    /\ UNCHANGED <<chanVars, runVars, timeVars>>

\* shared.store(MockData::new(v, v.to_string()));
Store(t, v) ==
    /\ CanStart(t)
    /\ scenario = "mixed"
    /\ shared' = SharedStore(shared, MockData(v, to_string(v)))
    /\ log' = Append(log, LogEntry("store", t, NoClosure, 0,
                                   Deref(shared, shared.inner),
                                   MockData(v, to_string(v))))
    /\ ops' = [ops EXCEPT ![t] = @ + 1]
    /\ UNCHANGED <<tpc, fn, fstep, cur, new_data, guard, seen, floor, attempts,
                   scenario>>
    /\ UNCHANGED <<chanVars, runVars, timeVars>>

\* shared.update(f): rcu loads the current pointer and enters the closure,
\* whose first statement clones *current_data.
UpdateBegin(t, f) ==
    /\ CanStart(t)
    /\ IF scenario = "counter" THEN f = IncClosure ELSE f.kind = "set"
    /\ tpc' = [tpc EXCEPT ![t] = "rcu_f"]
    /\ fn' = [fn EXCEPT ![t] = f]
    /\ fstep' = [fstep EXCEPT ![t] = 1]
    /\ cur' = [cur EXCEPT ![t] = SharedLoad(shared)]
    /\ new_data' = [new_data EXCEPT ![t] = Deref(shared, SharedLoad(shared))]
    /\ attempts' = [attempts EXCEPT ![t] = 1]
    /\ ops' = [ops EXCEPT ![t] = @ + 1]
    /\ UNCHANGED <<shared, guard, seen, floor, log, scenario>>
    /\ UNCHANGED <<chanVars, runVars, timeVars>>

\* f(&mut new_data), one statement at a time.
RcuApply(t) ==
    /\ tpc[t] = "rcu_f"
    /\ LET r == RcuStmt(shared, cur[t], new_data[t], fn[t], fstep[t]) IN
        /\ shared' = r.cell
        /\ new_data' = [new_data EXCEPT ![t] = r.new_data]
    /\ fstep' = [fstep EXCEPT ![t] = @ + 1]
    /\ tpc' = [tpc EXCEPT ![t] =
                 IF fstep[t] >= ClosureLen(fn[t]) THEN "rcu_cas" ELSE "rcu_f"]
    /\ UNCHANGED <<fn, cur, guard, ops, seen, floor, log, attempts, scenario>>
    /\ UNCHANGED <<chanVars, runVars, timeVars>>

\* rcu's install attempt: on success update() returns; on failure the pointer
\* found installed becomes `cur` and f runs again on a clone of it.
RcuCas(t) ==
    /\ tpc[t] = "rcu_cas"
    /\ LET r == CompareAndSwap(shared, cur[t], new_data[t])
           swapped == r.prev = cur[t]
       IN
        /\ shared' = r.cell
        /\ IF swapped
           THEN /\ tpc' = [tpc EXCEPT ![t] = "idle"]
                /\ log' = Append(log, LogEntry("update", t, fn[t], attempts[t],
                                               Deref(shared, shared.inner),
                                               Deref(r.cell, r.cell.inner)))
                /\ UNCHANGED <<cur, new_data, fstep, attempts>>
           ELSE /\ tpc' = [tpc EXCEPT ![t] = "rcu_f"]
                /\ cur' = [cur EXCEPT ![t] = r.prev]
                /\ new_data' = [new_data EXCEPT ![t] = Deref(r.cell, r.prev)]
                /\ fstep' = [fstep EXCEPT ![t] = 1]
                /\ attempts' = [attempts EXCEPT ![t] = @ + 1]
                /\ UNCHANGED log
    /\ UNCHANGED <<fn, guard, ops, seen, floor, scenario>>
    /\ UNCHANGED <<chanVars, runVars, timeVars>>

\* ------------------------------------------------- specification: Shared
InitSharedMixed ==
    InitShared("mixed") /\ InitChannel(0) /\ InitRuntime /\ InitTime(DefaultHz)

NextShared ==
    \/ \E t \in Threads : Load(t)
    \/ \E t \in Threads, v \in StoreValues : Store(t, v)
    \/ \E t \in Threads, i \in SetValues : UpdateBegin(t, SetClosure(i))
    \/ \E t \in Threads : RcuApply(t)
    \/ \E t \in Threads : RcuCas(t)

SpecShared == InitSharedMixed /\ [][NextShared]_vars

\* ------------------------------------------------ specification: Counter
InitCounter ==
    InitShared("counter") /\ InitChannel(0) /\ InitRuntime /\ InitTime(DefaultHz)

NextCounter ==
    \/ \E t \in Threads : UpdateBegin(t, IncClosure)
    \/ \E t \in Threads : RcuApply(t)
    \/ \E t \in Threads : RcuCas(t)

SpecCounter == InitCounter /\ [][NextCounter]_vars

\* ------------------------------------------ specification: Channel
\* The message the next send call carries: messages are numbered in the order
\* of the send calls.  Every send is one try_send on the shared queue and the
\* calls of one clone follow each other, so the messages of one sender carry
\* increasing numbers whichever clones send in between.
NextMsg == next_msg

\* sender.send(message) on clone s
Send(s) ==
    /\ s_alive[s]
    /\ NextMsg <= MaxSends
    /\ LET r == MessageSenderSend(channel, NextMsg) IN
        /\ r.res \in SendResults
        /\ channel' = r.ch
        /\ accepted' = IF r.res = "Ok" THEN Append(accepted, NextMsg) ELSE accepted
        /\ rejected' = IF r.res = "Ok" THEN rejected ELSE rejected \cup {NextMsg}
        /\ send_result' = r.res
    /\ next_msg' = next_msg + 1
    /\ UNCHANGED <<given_capacity, s_alive, r_alive, rpc, buf, take, delivered,
                   recv_calls, last_recv>>
    /\ UNCHANGED <<sharedVars, runVars, timeVars>>

\* sender.send_lossy(message) on clone s: nothing is returned to the caller.
SendLossy(s) ==
    /\ s_alive[s]
    /\ NextMsg <= MaxSends
    /\ channel' = MessageSenderSendLossy(channel, NextMsg)
    /\ accepted' = IF channel' # channel THEN Append(accepted, NextMsg)
                   ELSE accepted
    /\ rejected' = IF channel' # channel THEN rejected
                   ELSE rejected \cup {NextMsg}
    /\ send_result' = "lossy"
    /\ next_msg' = next_msg + 1
    /\ UNCHANGED <<given_capacity, s_alive, r_alive, rpc, buf, take, delivered,
                   recv_calls, last_recv>>
    /\ UNCHANGED <<sharedVars, runVars, timeVars>>

\* A receiver starts its next receive call.
CanReceive(r) == r_alive[r] /\ rpc[r] = "idle" /\ recv_calls < MaxRecvCalls

\* receiver.try_recv() on clone r
TryRecv(r) ==
    /\ CanReceive(r)
    /\ LET x == MessageReceiverTryRecv(channel) IN
        /\ channel' = x.ch
        /\ delivered' = IF x.msg = None THEN delivered
                        ELSE [delivered EXCEPT ![r] = Append(@, x.msg)]
    /\ recv_calls' = recv_calls + 1
    /\ last_recv' = "try_recv"
    /\ UNCHANGED <<given_capacity, s_alive, r_alive, rpc, buf, take, accepted,
                   rejected, next_msg, send_result>>
    /\ UNCHANGED <<sharedVars, runVars, timeVars>>

\* receiver.drain() (limit = Unlimited) or receiver.drain_limit(limit) on clone
\* r: inner.try_iter()[.take(limit)].collect() starts with an empty Vec.
DrainBegin(r, limit) ==
    /\ CanReceive(r)
    /\ recv_calls' = recv_calls + 1
    /\ last_recv' = IF limit = Unlimited THEN "drain" ELSE "drain_limit"
    /\ rpc' = [rpc EXCEPT ![r] = "draining"]
    /\ buf' = [buf EXCEPT ![r] = <<>>]
    /\ take' = [take EXCEPT ![r] = limit]
    /\ UNCHANGED <<channel, given_capacity, s_alive, r_alive, delivered,
                   accepted, rejected, next_msg, send_result>>
    /\ UNCHANGED <<sharedVars, runVars, timeVars>>

\* One next() of the iterator behind drain: a try_recv.  None, or the last
\* item take(limit) lets through, ends the collect and the Vec is returned;
\* take(0) ends it without asking the channel.
DrainNext(r) ==
    /\ rpc[r] = "draining"
    /\ LET x == IF take[r] = 0 THEN [ch |-> channel, msg |-> None]
                ELSE MessageReceiverTryRecv(channel)
           got == IF x.msg = None THEN buf[r] ELSE Append(buf[r], x.msg)
           left == IF take[r] = Unlimited \/ x.msg = None THEN take[r]
                   ELSE take[r] - 1
       IN
        /\ channel' = x.ch
        /\ IF x.msg = None \/ left = 0
           THEN /\ rpc' = [rpc EXCEPT ![r] = "idle"]
                /\ buf' = [buf EXCEPT ![r] = <<>>]
                /\ take' = [take EXCEPT ![r] = 0]
                /\ delivered' = [delivered EXCEPT ![r] = @ \o got]
           ELSE /\ buf' = [buf EXCEPT ![r] = got]
                /\ take' = [take EXCEPT ![r] = left]
                /\ UNCHANGED <<rpc, delivered>>
    /\ UNCHANGED <<given_capacity, s_alive, r_alive, accepted, rejected,
                   next_msg, send_result, recv_calls, last_recv>>
    /\ UNCHANGED <<sharedVars, runVars, timeVars>>

\* drop(receiver) of clone r; with the last one gone the channel is
\* disconnected for the senders.  Whether crossbeam then discards the queued
\* messages at once or leaves them to the channel's destructor depends on its
\* version, so both outcomes are possible.
DropReceiver(r) ==
    /\ r_alive[r]
    /\ rpc[r] = "idle"
    /\ r_alive' = [r_alive EXCEPT ![r] = FALSE]
    /\ \E discard \in BOOLEAN :
           channel' = [channel EXCEPT
                          !.receivers = @ - 1,
                          !.queue = IF channel.receivers = 1 /\ discard
                                    THEN <<>> ELSE @]
    /\ UNCHANGED <<given_capacity, s_alive, rpc, buf, take, delivered, accepted,
                   rejected, next_msg, send_result, recv_calls, last_recv>>
    /\ UNCHANGED <<sharedVars, runVars, timeVars>>

InitSharedIdle == InitShared("mixed")

InitChannelSpec ==
    /\ \E capacity \in 0..MaxCapacity : InitChannel(capacity)
    /\ InitSharedIdle
    /\ InitRuntime
    /\ InitTime(DefaultHz)

NextChannel ==
    \/ \E s \in SenderIds : Send(s)
    \/ \E s \in SenderIds : SendLossy(s)
    \/ \E r \in ReceiverIds : TryRecv(r)
    \/ \E r \in ReceiverIds : DrainBegin(r, Unlimited)
    \/ \E r \in ReceiverIds, n \in 0..MaxCapacity : DrainBegin(r, n)
    \/ \E r \in ReceiverIds : DrainNext(r)
    \/ \E r \in ReceiverIds : DropReceiver(r)

SpecChannel == InitChannelSpec /\ [][NextChannel]_vars

\* ------------------------------------------ specification: Runtime
\* A handle half is dropped: the worker's when its thread ends, the
\* consumer's when gui.run() returns.  A queue whose last receiver is gone may
\* be discarded at once.
DropHandles(ch, ns, nr, discard) ==
    [ch EXCEPT !.senders = @ - ns,
               !.receivers = @ - nr,
               !.queue = IF nr > 0 /\ ch.receivers = nr /\ discard THEN <<>> ELSE @]

\* The worker thread ends (return or unwind): sim_sender and sim_receiver die.
WorkerEnds(result) ==
    /\ worker_result' = result
    /\ wpc' = "ended"
    /\ \E discard \in BOOLEAN :
           /\ sim_channel' = DropHandles(sim_channel, 1, 0, discard)
           /\ gui_channel' = DropHandles(gui_channel, 0, 1, discard)

\* A stop check that never sees the flag.
StopCheckBlind(flag) == FALSE

\* stop_simulator.load(Ordering::Relaxed)
StopCheck(flag) == flag

\* if stop_simulator.load(Relaxed) { break; }  ...  Ok(())
WorkerCheckStop ==
    /\ wpc = "check_stop"
    /\ IF StopCheck(stop)
       THEN /\ WorkerEnds("Ok")
            /\ UNCHANGED w_buf
       ELSE /\ ticks < MaxTicks
            /\ wpc' = "drain"
            /\ w_buf' = <<>>
            /\ UNCHANGED <<worker_result, sim_channel, gui_channel>>
    /\ UNCHANGED <<simulation_data, stop, cpc, c_buf, step_sent, frame_sent,
                   ticks, frames, out_next, out_refused, gui_seen, timed_out,
                   run_result>>
    /\ UNCHANGED <<panic, run_detail>>
    /\ UNCHANGED <<joined, steps_after_stop, stores_after_stop, gui_got>>
    /\ UNCHANGED <<sharedVars, chanVars, timeVars>>

\* sim_receiver.drain(), one try_recv at a time; on None simulation.update
\* is entered with the Vec collected.
WorkerDrainNext ==
    /\ wpc = "drain"
    /\ LET x == MessageReceiverTryRecv(gui_channel) IN
        /\ gui_channel' = x.ch
        /\ IF x.msg = None
           THEN /\ wpc' = "step"
                /\ step_sent' = 0
                /\ UNCHANGED w_buf
           ELSE /\ w_buf' = Append(w_buf, x.msg)
                /\ UNCHANGED <<wpc, step_sent>>
    /\ UNCHANGED <<simulation_data, sim_channel, stop, cpc, c_buf, frame_sent,
                   ticks, frames, out_next, out_refused, gui_seen, worker_result,
                   timed_out, run_result>>
    /\ UNCHANGED <<panic, run_detail>>
    /\ steps_after_stop' =
           IF stop /\ MessageReceiverTryRecv(gui_channel).msg = None
           THEN steps_after_stop + 1 ELSE steps_after_stop
    /\ UNCHANGED <<joined, stores_after_stop, gui_got>>
    /\ UNCHANGED <<sharedVars, chanVars, timeVars>>

\* Inside simulation.update: send_message_to_gui(message), that is
\* let _ = sim_sender.send(message);
StepSend ==
    /\ wpc = "step"
    /\ step_sent < MaxStepSends
    /\ LET r == MessageSenderSend(sim_channel, out_next) IN
        /\ r.res \in SendResults
        /\ sim_channel' = r.ch
        /\ out_refused' = IF r.res = "Ok" THEN out_refused
                          ELSE out_refused \cup {out_next}
    /\ out_next' = out_next + 1
    /\ step_sent' = step_sent + 1
    /\ UNCHANGED <<simulation_data, gui_channel, stop, wpc, cpc, w_buf, c_buf,
                   frame_sent, ticks, frames, gui_seen, worker_result, timed_out,
                   run_result>>
    /\ UNCHANGED <<panic, run_detail>>
    /\ UNCHANGED <<joined, steps_after_stop, stores_after_stop, gui_got>>
    /\ UNCHANGED <<sharedVars, chanVars, timeVars>>

\* simulation.update returns Ok(&data).
StepReturn ==
    /\ wpc = "step"
    /\ wpc' = "store"
    /\ w_buf' = <<>>
    /\ UNCHANGED <<simulation_data, sim_channel, gui_channel, stop, cpc,
                   c_buf, step_sent, frame_sent, ticks, frames, out_next,
                   out_refused, gui_seen, worker_result, timed_out, run_result>>
    /\ UNCHANGED <<panic, run_detail>>
    /\ UNCHANGED <<joined, steps_after_stop, stores_after_stop, gui_got>>
    /\ UNCHANGED <<sharedVars, chanVars, timeVars>>

\* simulation.update returns Err(e): the `?` ends the thread with that error.
StepError ==
    /\ wpc = "step"
    /\ WorkerEnds("Err")
    /\ w_buf' = <<>>
    /\ UNCHANGED <<simulation_data, stop, cpc, c_buf, step_sent,
                   frame_sent, ticks, frames, out_next, out_refused, gui_seen,
                   timed_out, run_result>>
    /\ UNCHANGED <<panic, run_detail>>
    /\ UNCHANGED <<joined, steps_after_stop, stores_after_stop, gui_got>>
    /\ UNCHANGED <<sharedVars, chanVars, timeVars>>

\* simulation.update panics with the message p: the thread unwinds and its
\* JoinHandle holds the payload.
StepPanic(p) ==
    /\ wpc = "step"
    /\ WorkerEnds("Panic")
    /\ w_buf' = <<>>
    /\ panic' = [payload |-> p, frames |-> frames]
    /\ UNCHANGED <<simulation_data, stop, cpc, c_buf, step_sent,
                   frame_sent, ticks, frames, out_next, out_refused, gui_seen,
                   timed_out, run_result, run_detail>>
    /\ UNCHANGED <<joined, steps_after_stop, stores_after_stop, gui_got>>
    /\ UNCHANGED <<sharedVars, chanVars, timeVars>>

\* simulation_data.store(new_simulation_data.clone());
WorkerStore ==
    /\ wpc = "store"
    /\ simulation_data' = SharedStore(simulation_data, ticks + 1)
    /\ wpc' = "sleep"
    /\ UNCHANGED <<sim_channel, gui_channel, stop, cpc, w_buf, c_buf, step_sent,
                   frame_sent, ticks, frames, out_next, out_refused, gui_seen,
                   worker_result, timed_out, run_result>>
    /\ UNCHANGED <<panic, run_detail>>
    /\ stores_after_stop' = IF stop THEN stores_after_stop + 1 ELSE stores_after_stop
    /\ UNCHANGED <<joined, steps_after_stop, gui_got>>
    /\ UNCHANGED <<sharedVars, chanVars, timeVars>>

\* if duration < frequency { thread::sleep(frequency - duration); }
WorkerSleep ==
    /\ wpc = "sleep"
    /\ wpc' = "check_stop"
    /\ ticks' = ticks + 1
    /\ UNCHANGED <<simulation_data, sim_channel, gui_channel, stop, cpc, w_buf,
                   c_buf, step_sent, frame_sent, frames, out_next, out_refused,
                   gui_seen, worker_result, timed_out, run_result>>
    /\ UNCHANGED <<panic, run_detail>>
    /\ UNCHANGED <<joined, steps_after_stop, stores_after_stop, gui_got>>
    /\ UNCHANGED <<sharedVars, chanVars, timeVars>>

\* gui.run(): the event loop calls App::update for the next frame.
FrameBegin ==
    /\ cpc = "frame_start"
    /\ frames < MaxFrames
    /\ cpc' = "drain"
    /\ c_buf' = <<>>
    /\ UNCHANGED <<simulation_data, sim_channel, gui_channel, stop, wpc, w_buf,
                   step_sent, frame_sent, ticks, frames, out_next, out_refused,
                   gui_seen, worker_result, timed_out, run_result>>
    /\ UNCHANGED <<panic, run_detail>>
    /\ UNCHANGED <<joined, steps_after_stop, stores_after_stop, gui_got>>
    /\ UNCHANGED <<sharedVars, chanVars, timeVars>>

\* AppGui::update: self.receiver.drain(), one try_recv at a time; the Vec
\* goes to received_messages_from_simulation.
ConsumerDrainNext ==
    /\ cpc = "drain"
    /\ LET x == MessageReceiverTryRecv(sim_channel) IN
        /\ sim_channel' = x.ch
        /\ IF x.msg = None
           THEN /\ cpc' = "load"
                /\ c_buf' = <<>>
           ELSE /\ c_buf' = Append(c_buf, x.msg)
                /\ UNCHANGED cpc
    /\ UNCHANGED <<simulation_data, gui_channel, stop, wpc, w_buf, step_sent,
                   frame_sent, ticks, frames, out_next, out_refused, gui_seen,
                   worker_result, timed_out, run_result>>
    /\ UNCHANGED <<panic, run_detail>>
    /\ gui_got' = LET m == MessageReceiverTryRecv(sim_channel).msg IN
                  IF m = None THEN gui_got ELSE Append(gui_got, m)
    /\ UNCHANGED <<joined, steps_after_stop, stores_after_stop>>
    /\ UNCHANGED <<sharedVars, chanVars, timeVars>>

\* The frame loads the latest snapshot for sidebar() and content().
ConsumerLoad ==
    /\ cpc = "load"
    /\ gui_seen' = Deref(simulation_data, SharedLoad(simulation_data))
    /\ cpc' = "send"
    /\ frame_sent' = 0
    /\ UNCHANGED <<simulation_data, sim_channel, gui_channel, stop, wpc, w_buf,
                   c_buf, step_sent, ticks, frames, out_next, out_refused,
                   worker_result, timed_out, run_result>>
    /\ UNCHANGED <<panic, run_detail>>
    /\ UNCHANGED <<joined, steps_after_stop, stores_after_stop, gui_got>>
    /\ UNCHANGED <<sharedVars, chanVars, timeVars>>

\* sidebar()/content() call |message| self.sender.send_lossy(message).
ConsumerSend ==
    /\ cpc = "send"
    /\ frame_sent < MaxFrameSends
    /\ gui_channel' = MessageSenderSendLossy(gui_channel, frames + 1)
    /\ frame_sent' = frame_sent + 1
    /\ UNCHANGED <<simulation_data, sim_channel, stop, wpc, cpc, w_buf, c_buf,
                   step_sent, ticks, frames, out_next, out_refused, gui_seen,
                   worker_result, timed_out, run_result>>
    /\ UNCHANGED <<panic, run_detail>>
    /\ UNCHANGED <<joined, steps_after_stop, stores_after_stop, gui_got>>
    /\ UNCHANGED <<sharedVars, chanVars, timeVars>>

\* App::update returns.
FrameEnd ==
    /\ cpc = "send"
    /\ cpc' = "frame_start"
    /\ frames' = frames + 1
    /\ UNCHANGED <<simulation_data, sim_channel, gui_channel, stop, wpc, w_buf,
                   c_buf, step_sent, frame_sent, ticks, out_next, out_refused,
                   gui_seen, worker_result, timed_out, run_result>>
    /\ UNCHANGED <<panic, run_detail>>
    /\ UNCHANGED <<joined, steps_after_stop, stores_after_stop, gui_got>>
    /\ UNCHANGED <<sharedVars, chanVars, timeVars>>

\* gui.run() returns (the AppGui, what it received and its two handles are
\* dropped): Ok when
\* the window was closed, Err(Error::Gui) when eframe failed, and then the
\* `?` of `gui.run()?` returns from run() at once.
GuiReturns(ok) ==
    /\ cpc = "frame_start"
    /\ \E discard \in BOOLEAN :
           /\ sim_channel' = DropHandles(sim_channel, 0, 1, discard)
           /\ gui_channel' = DropHandles(gui_channel, 1, 0, discard)
    /\ IF ok
       THEN /\ cpc' = "set_stop"
            /\ UNCHANGED run_result
       ELSE /\ cpc' = "returned"
            /\ run_result' = "Gui"
    /\ UNCHANGED <<simulation_data, stop, wpc, w_buf, c_buf, step_sent,
                   frame_sent, ticks, frames, out_next, out_refused, gui_seen,
                   worker_result, timed_out, run_detail, panic>>
    /\ gui_got' = <<>>
    /\ UNCHANGED <<joined, steps_after_stop, stores_after_stop>>
    /\ UNCHANGED <<sharedVars, chanVars, timeVars>>

\* stop_gui.store(true, Relaxed); let start = Instant::now();
SetStop ==
    /\ cpc = "set_stop"
    /\ stop' = TRUE
    /\ cpc' = "poll"
    /\ UNCHANGED <<simulation_data, sim_channel, gui_channel, wpc, w_buf, c_buf,
                   step_sent, frame_sent, ticks, frames, out_next, out_refused,
                   gui_seen, worker_result, timed_out, run_result>>
    /\ UNCHANGED <<panic, run_detail>>
    /\ UNCHANGED <<joined, steps_after_stop, stores_after_stop, gui_got>>
    /\ UNCHANGED <<sharedVars, chanVars, timeVars>>

\* The five seconds of `timeout` pass while run() polls.
TimeoutElapses ==
    /\ cpc = "poll"
    /\ ~timed_out
    /\ timed_out' = TRUE
    /\ UNCHANGED <<simulation_data, sim_channel, gui_channel, stop, wpc, cpc,
                   w_buf, c_buf, step_sent, frame_sent, ticks, frames, out_next,
                   out_refused, gui_seen, worker_result, run_result>>
    /\ UNCHANGED <<panic, run_detail>>
    /\ UNCHANGED <<joined, steps_after_stop, stores_after_stop, gui_got>>
    /\ UNCHANGED <<sharedVars, chanVars, timeVars>>

\* A join that reports every finished thread as a success.
JoinResultSwallows(w) == "Ok"

\* What join() maps the thread's end to: a panic becomes SimulationPanic, a
\* returned Result is passed on.
JoinResult(w) ==
    CASE w = "Panic" -> "SimulationPanic"
      [] w = "Err" -> "StepError"
      [] OTHER -> "Ok"

\* A shutdown loop that joins the thread when it gives up on it as well.
JoinsOnTimeout(w, elapsed) == w # "running" \/ elapsed

\* if simulation_thread.is_finished() { return simulation_thread.join()... }:
\* the round joins the thread exactly when it has finished.
Joins(w, elapsed) == w # "running"

\* format!("{:?}", e) of the payload e: Box<dyn Any + Send>.  Debug of
\* dyn Any prints the type-erased placeholder, whatever the box holds.
PanicDescription(payload) == <<"Any { .. }">>

\* A shutdown loop that only ever waits for the thread.
ShutdownRoundNoTimeout(w, elapsed) ==
    IF w # "running" THEN JoinResult(w) ELSE "sleep"

\* One round of the shutdown loop: a finished thread is joined; else, once
\* start.elapsed() >= timeout, ShutdownTimeout; else thread::sleep(10 ms).
ShutdownRound(w, elapsed) ==
    IF w # "running" THEN JoinResult(w)
    ELSE IF elapsed THEN "ShutdownTimeout"
    ELSE "sleep"

\* What the returned Error carries.
ErrorDetail(result, payload) ==
    CASE result = "SimulationPanic" ->
             [NoDetail EXCEPT !.description = PanicDescription(payload)]
      [] result = "ShutdownTimeout" -> [NoDetail EXCEPT !.timeout = timeout]
      [] OTHER -> NoDetail

\* A round of the shutdown loop that returns from run().
ShutdownPoll ==
    /\ cpc = "poll"
    /\ LET res == ShutdownRound(worker_result, timed_out) IN
        /\ res # "sleep"
        /\ run_result' = res
        /\ run_detail' = ErrorDetail(res, panic.payload)
    /\ cpc' = "returned"
    /\ UNCHANGED <<simulation_data, sim_channel, gui_channel, stop, wpc, w_buf,
                   c_buf, step_sent, frame_sent, ticks, frames, out_next,
                   out_refused, gui_seen, worker_result, timed_out, panic>>
    /\ joined' = Joins(worker_result, timed_out)
    /\ UNCHANGED <<steps_after_stop, stores_after_stop, gui_got>>
    /\ UNCHANGED <<sharedVars, chanVars, timeVars>>

InitRuntimeSpec ==
    InitRuntime /\ InitSharedIdle /\ InitChannel(0) /\ InitTime(DefaultHz)

NextRuntime ==
    \/ WorkerCheckStop
    \/ WorkerDrainNext
    \/ StepSend
    \/ StepReturn
    \/ StepError
    \/ \E p \in PanicPayloads : StepPanic(p)
    \/ WorkerStore
    \/ WorkerSleep
    \/ FrameBegin
    \/ ConsumerDrainNext
    \/ ConsumerLoad
    \/ ConsumerSend
    \/ FrameEnd
    \/ GuiReturns(TRUE)
    \/ GuiReturns(FALSE)
    \/ SetStop
    \/ TimeoutElapses
    \/ ShutdownPoll

SpecRuntime == InitRuntimeSpec /\ [][NextRuntime]_vars


\* ------------------------------------------- specification: Pacing
\* The worker loop against its clock.  The body of a tick (drain, update,
\* store) is a span of time; the stop flag is stored while the worker stands
\* at a statement boundary, which includes the worst instant, right after
\* the check.
Frequencies == {10, 30, 60}

\* Milliseconds that drain + simulation.update + store take in one tick.
StepDurations == {0, 10, 40, 120}

\* let frequency = Duration::from_millis(1000 / Simulation::FREQUENCY_IN_HZ);
\* u64 division.
frequency(f) == 1000 \div f

\* A pause of the whole period, whatever the tick has spent.
SleepFull(duration, period) == period

\* A pause computed without the comparison.
SleepUnchecked(duration, period) == period - duration

\* if duration < frequency { thread::sleep(frequency - duration); }
SleepFor(duration, period) ==
    IF duration < period THEN period - duration ELSE 0

\* if stop_simulator.load(Relaxed) { break; }
\* let now = Instant::now(); ... delta = now;
PaceCheckStop ==
    /\ ppc = "check"
    /\ IF StopCheck(stop_at # NotYet)
       THEN /\ ppc' = "exited"
            /\ seen_at' = clock
            /\ UNCHANGED delta
       ELSE /\ Len(tick_log) < MaxPaceTicks
            /\ ppc' = "work"
            /\ delta' = clock
            /\ UNCHANGED seen_at
    /\ UNCHANGED <<hz, clock, stop_at, tick_log, start_elapsed, rounds>>
    /\ UNCHANGED <<sharedVars, chanVars, runVars>>

\* simulation.update(...)? returns Ok after w ms; simulation_data.store(..).
PaceStep(w) ==
    /\ ppc = "work"
    /\ clock' = clock + w
    /\ ppc' = "sleep"
    /\ UNCHANGED <<hz, delta, stop_at, seen_at, tick_log, start_elapsed, rounds>>
    /\ UNCHANGED <<sharedVars, chanVars, runVars>>

\* simulation.update(...)? returns Err, or panics, after w ms: the thread
\* leaves the loop without another check.
PaceStepFails(w) ==
    /\ ppc = "work"
    /\ clock' = clock + w
    /\ ppc' = "exited"
    /\ UNCHANGED <<hz, delta, stop_at, seen_at, tick_log, start_elapsed, rounds>>
    /\ UNCHANGED <<sharedVars, chanVars, runVars>>

\* let now = Instant::now(); let duration = now.duration_since(delta);
\* if duration < frequency { thread::sleep(frequency - duration); }
PaceSleep ==
    /\ ppc = "sleep"
    /\ LET duration == clock - delta
           slept == SleepFor(duration, frequency(hz))
       IN  /\ clock' = clock + slept
           /\ tick_log' = Append(tick_log, [start |-> delta,
                                            spent |-> duration,
                                            slept |-> slept])
    /\ ppc' = "check"
    /\ UNCHANGED <<hz, delta, stop_at, seen_at, start_elapsed, rounds>>
    /\ UNCHANGED <<sharedVars, chanVars, runVars>>

\* stop_gui.store(true, Relaxed) on the main thread.
PaceStopSet ==
    /\ stop_at = NotYet
    /\ stop_at' = clock
    /\ UNCHANGED <<hz, clock, ppc, delta, seen_at, tick_log, start_elapsed,
                   rounds>>
    /\ UNCHANGED <<sharedVars, chanVars, runVars>>

InitPacing ==
    /\ \E f \in Frequencies : InitTime(f)
    /\ InitSharedIdle
    /\ InitChannel(0)
    /\ InitRuntime

NextPacing ==
    \/ PaceCheckStop
    \/ \E w \in StepDurations : PaceStep(w)
    \/ \E w \in StepDurations : PaceStepFails(w)
    \/ PaceSleep
    \/ PaceStopSet

SpecPacing == InitPacing /\ [][NextPacing]_vars

\* ----------------------------------------- specification: Shutdown
\* The shutdown loop of run() against its clock, from the moment `start` is
\* taken: gui.run() has returned Ok, the flag is set, and the worker is
\* wherever it was.

\* A timeout test that takes the budget for minutes.
TimeoutReachedInMinutes(ms, t) == ms >= t * 60 * MillisPerSec

\* start.elapsed() >= timeout, with timeout = Duration::from_secs(5).
TimeoutReached(ms, t) == ms >= t * MillisPerSec

\* thread::sleep(Duration::from_millis(10)); and the loop's next
\* start.elapsed() >= timeout.
PollSleep ==
    /\ cpc = "poll"
    /\ ShutdownRound(worker_result, timed_out) = "sleep"
    /\ start_elapsed' = start_elapsed + PollInterval
    /\ rounds' = rounds + 1
    /\ timed_out' = TimeoutReached(start_elapsed + PollInterval, timeout)
    /\ UNCHANGED <<simulation_data, sim_channel, gui_channel, stop, wpc, cpc,
                   w_buf, c_buf, step_sent, frame_sent, ticks, frames, out_next,
                   out_refused, gui_seen, worker_result, run_result>>
    /\ UNCHANGED <<panic, run_detail>>
    /\ UNCHANGED <<joined, steps_after_stop, stores_after_stop, gui_got>>
    /\ UNCHANGED <<hz, clock, ppc, delta, stop_at, seen_at, tick_log>>
    /\ UNCHANGED <<sharedVars, chanVars>>

\* The runtime as SetStop leaves it after an Ok from gui.run(), the worker
\* either about to check the flag or inside the step function.
InitShutdown ==
    /\ simulation_data = SharedNew(0)
    /\ sim_channel = DropHandles(MessageChannelNew(RunCapacity, 1, 1), 0, 1, TRUE)
    /\ gui_channel = DropHandles(MessageChannelNew(RunCapacity, 1, 1), 1, 0, TRUE)
    /\ stop = TRUE
    /\ wpc \in {"check_stop", "step"}
    /\ cpc = "poll"
    /\ w_buf = <<>>
    /\ c_buf = <<>>
    /\ step_sent = 0
    /\ frame_sent = 0
    /\ ticks = 0
    /\ frames = 0
    /\ out_next = 1
    /\ out_refused = {}
    /\ gui_seen = 0
    /\ worker_result = "running"
    /\ timed_out = TimeoutReached(0, timeout)
    /\ run_result = "none"
    /\ run_detail = NoDetail
    /\ panic = NoPanic
    /\ joined = FALSE
    /\ steps_after_stop = 0
    /\ stores_after_stop = 0
    /\ gui_got = <<>>
    /\ InitTime(DefaultHz)
    /\ InitSharedIdle
    /\ InitChannel(0)

NextShutdown ==
    \/ PollSleep
    \/ ShutdownPoll
    \/ WorkerCheckStop
    \/ StepSend
    \/ StepReturn
    \/ StepError
    \/ \E p \in PanicPayloads : StepPanic(p)
    \/ WorkerStore
    \/ WorkerSleep

SpecShutdown == InitShutdown /\ [][NextShutdown]_vars


\* ------------------------------------------------------- claims: Shared
\* The value of the k-th completed write; k = 0 is the value given to new().
Written(k) == IF k = 0 THEN InitialData ELSE log[k].written

\* data_string == data_number.to_string(): both fields come from one write.
Consistent(d) == d.data_string = to_string(d.data_number)

\* Some update() call completed after at least one abandoned run of f.
SomeRetry == \E k \in 1..Len(log) : log[k].kind = "update" /\ log[k].runs >= 2

\* C2: once a store(v) has completed, a load() that starts afterwards, on any
\* thread, returns v or the value of a later write, never the value of a write
\* that completed before v; a load before any write returns the initial value.
C2_StoreVisibleToLaterLoads ==
    \A t \in Threads :
        guard[t] # 0 =>
            \E k \in floor[t]..Len(log) : seen[t] = Written(k)

\* C2 witness: a thread loaded after a store() of another thread had completed.
C2_Witness ==
    \E t \in Threads :
        /\ guard[t] # 0
        /\ floor[t] >= 1
        /\ log[floor[t]].kind = "store"
        /\ log[floor[t]].by # t
        /\ seen[t] = log[floor[t]].written

\* C3: a guard keeps dereferencing to the snapshot that was current when
\* load() returned it, whatever store()/update() calls follow on the cell.
C3_GuardKeepsSnapshot ==
    \A t \in Threads : guard[t] # 0 => Deref(shared, guard[t]) = seen[t]

\* C3 witness: a guard is held while the cell has moved on to another value.
C3_Witness ==
    \E t \in Threads :
        /\ guard[t] # 0
        /\ SharedLoad(shared) # guard[t]
        /\ Deref(shared, SharedLoad(shared)) # seen[t]
        /\ Len(log) > floor[t]

\* C4: no torn snapshot: what a load() returned, what a held guard shows and
\* what the cell holds always has both fields from one single write.
C4_NoTornSnapshot ==
    /\ Consistent(Deref(shared, SharedLoad(shared)))
    /\ \A t \in Threads :
           guard[t] # 0 =>
               Consistent(seen[t]) /\ Consistent(Deref(shared, guard[t]))

\* C4 witness: a guard is held on the snapshot another thread's update() is
\* half-way through rewriting a clone of (one field written, one not yet).
C4_Witness ==
    \E t, u \in Threads :
        /\ t # u
        /\ guard[t] # 0
        /\ tpc[u] = "rcu_f"
        /\ fstep[u] = 2
        /\ cur[u] = guard[t]
        /\ ~Consistent(new_data[u])

\* Every thread has made its IncPerThread update() calls and returned.
AllJoined == \A t \in Threads : tpc[t] = "idle" /\ ops[t] = IncPerThread

\* C5: NumThreads threads each calling update(inc) IncPerThread times leave the
\* counter at exactly initial + NumThreads * IncPerThread once all have joined.
C5_NoLostIncrement ==
    AllJoined =>
        Deref(shared, SharedLoad(shared)).data_number
            = InitialData.data_number + NumThreads * IncPerThread

\* C5 witness: all threads have joined and some update() had to retry.
C5_Witness == AllJoined /\ SomeRetry

\* C6: every update(f) call installs exactly one value, f applied to the value
\* it directly replaces; the snapshots ever installed are exactly the initial
\* one and one per completed call, so no abandoned result of f becomes visible.
C6_UpdateInstallsFOfReplaced ==
    /\ Len(shared.arcs) = 1 + Len(log)
    /\ \A k \in 1..Len(log) :
           /\ Deref(shared, k + 1) = log[k].written
           /\ log[k].before = Written(k - 1)
           /\ log[k].kind = "update" =>
                  log[k].written = ClosureRun(log[k].f, 1, log[k].before)

\* C6 witness: an update() completed whose first run of f was abandoned.
C6_Witness ==
    \E k \in 1..Len(log) :
        /\ log[k].kind = "update"
        /\ log[k].runs >= 2
        /\ log[k].written = ClosureRun(log[k].f, 1, log[k].before)

\* ------------------------------------------------------ claims: Channel
\* What receiver r has taken off the queue: the results of its completed
\* receive calls, then the Vec its drain in progress has collected so far.
Got(r) == delivered[r] \o buf[r]

\* The elements of a sequence.
Range(q) == {q[i] : i \in 1..Len(q)}

\* The place of message m in the order in which the sends were accepted.
Pos(m) == CHOOSE i \in 1..Len(accepted) : accepted[i] = m

\* How often message m occurs on the queue and in what the receivers took.
Occurrences(m) ==
    Cardinality({i \in 1..Len(channel.queue) : channel.queue[i] = m})
    + Cardinality({p \in UNION {{<<r, i>> : i \in 1..Len(Got(r))} : r \in ReceiverIds} :
                       Got(p[1])[p[2]] = m})

\* Receiver r takes its messages in the order the sends were accepted, and
\* everything still queued was accepted after everything already taken.
InAcceptOrder ==
    /\ Range(channel.queue) \subseteq Range(accepted)
    /\ \A i, j \in 1..Len(channel.queue) :
           i < j => Pos(channel.queue[i]) < Pos(channel.queue[j])
    /\ \A r \in ReceiverIds :
           /\ Range(Got(r)) \subseteq Range(accepted)
           /\ \A i, j \in 1..Len(Got(r)) :
                  i < j => Pos(Got(r)[i]) < Pos(Got(r)[j])
           /\ \A i \in 1..Len(Got(r)), k \in 1..Len(channel.queue) :
                  Pos(Got(r)[i]) < Pos(channel.queue[k])

\* The step in which the drain() of receiver r returns its Vec.
DrainReturns(r) ==
    rpc[r] = "draining" /\ rpc'[r] = "idle" /\ take[r] = Unlimited

\* C7: the channel is strictly FIFO: every receiver gets its messages in the
\* order the sends were accepted, whichever clones sent them; a drain()
\* returns with the queue empty, and when no other receiver has taken a
\* message the receiver has then been given exactly the accepted messages,
\* in send order (so a drain() right after it returns an empty list).
C7_Fifo ==
    [][/\ InAcceptOrder'
       /\ \A r \in ReceiverIds :
              DrainReturns(r) =>
                  /\ channel'.queue = <<>>
                  /\ (\A q \in ReceiverIds \ {r} : Got(q) = <<>>) =>
                         delivered'[r] = accepted']_vars

\* C7 witness: a receiver alone has drained several messages, all those sent.
C7_Witness ==
    \E r \in ReceiverIds :
        /\ rpc[r] = "idle"
        /\ Len(delivered[r]) >= 2
        /\ delivered[r] = accepted
        /\ channel.queue = <<>>
        /\ \A q \in ReceiverIds \ {r} : Got(q) = <<>>

\* C8: delivery is exactly-once: nothing but accepted messages is ever queued
\* or received, no accepted message is received twice or by two receivers,
\* and while a receiver exists every accepted message is either still queued
\* or has been taken by exactly one receive call.
C8_ExactlyOnce ==
    /\ \A r \in ReceiverIds : Range(Got(r)) \subseteq Range(accepted)
    /\ Range(channel.queue) \subseteq Range(accepted)
    /\ \A k \in 1..Len(accepted) :
           /\ Occurrences(accepted[k]) <= 1
           /\ channel.receivers > 0 => Occurrences(accepted[k]) = 1

\* C8 witness: two receiver clones have each been given messages while
\* another accepted message is still queued.
C8_Witness ==
    /\ \A r \in ReceiverIds : delivered[r] # <<>>
    /\ channel.queue # <<>>
    /\ channel.receivers > 0

\* C9: the queue never holds more messages than the capacity given to
\* MessageChannel::new, and the capacity never changes.
C9_BoundedQueue ==
    /\ Pending(channel) <= given_capacity
    /\ Capacity(channel) = given_capacity

\* C9 witness: the queue is full and a send was refused on it.
C9_Witness ==
    /\ given_capacity >= 2
    /\ Pending(channel) = given_capacity
    /\ rejected # {}
    /\ channel.receivers > 0

\* The step of a send call (send or send_lossy) carrying message next_msg.
SendStep == next_msg' = next_msg + 1

\* C10: while a receiver exists, send(msg) returns Ok exactly when the queue
\* holds fewer than capacity messages at the call, and then appends msg;
\* otherwise it returns MessageSenderFull and leaves the queue as it is, and
\* a refused message is never queued or delivered afterwards.
C10_SendFullIffAtCapacity ==
    [][/\ (SendStep /\ channel.receivers > 0 /\ send_result' # "lossy") =>
              /\ send_result' = IF Pending(channel) < given_capacity
                                THEN "Ok" ELSE "MessageSenderFull"
              /\ channel'.queue = IF Pending(channel) < given_capacity
                                  THEN Append(channel.queue, next_msg)
                                  ELSE channel.queue
       /\ \A m \in rejected' :
              /\ m \notin Range(channel'.queue)
              /\ \A r \in ReceiverIds : m \notin Range(delivered'[r] \o buf'[r])]_vars

\* C10 witness: a send was refused on the full queue, a receive made room and
\* the latest send succeeded: more messages accepted than the capacity.
C10_Witness ==
    /\ send_result = "Ok"
    /\ given_capacity >= 1
    /\ rejected # {}
    /\ Len(accepted) > given_capacity
    /\ channel.receivers > 0

\* The step of a send_lossy call.
LossyStep == SendStep /\ send_result' = "lossy"

\* What receiver r has taken off the queue after the step.
GotNext(r) == delivered'[r] \o buf'[r]

\* C11: send_lossy(msg) returns nothing to its caller; msg is appended to the
\* queue exactly when send(msg) would have returned Ok (a receiver exists and
\* the queue is below capacity); on a full or disconnected channel the queue is
\* left as it is, and the discarded message is never queued nor returned by any
\* later receive call.
C11_SendLossyEnqueueOrDrop ==
    [][/\ LossyStep =>
              /\ channel'.queue =
                     IF channel.receivers > 0 /\ Pending(channel) < given_capacity
                     THEN Append(channel.queue, next_msg) ELSE channel.queue
              /\ channel'.queue = MessageSenderSend(channel, next_msg).ch.queue
              /\ (channel'.queue = channel.queue) <=> (next_msg \in rejected')
              /\ channel'.cap = channel.cap
       /\ \A m \in rejected' :
              /\ m \notin Range(channel'.queue)
              /\ \A r \in ReceiverIds : m \notin Range(GotNext(r))]_vars

\* C11 witness: the latest call was a send_lossy on a full queue with a live
\* receiver, and its message was discarded.
C11_Witness ==
    /\ send_result = "lossy"
    /\ (next_msg - 1) \in rejected
    /\ given_capacity >= 1
    /\ IsFull(channel)
    /\ channel.receivers > 0

\* The step in which the drain_limit(n) of receiver r returns its Vec.
DrainLimitReturns(r) ==
    rpc[r] = "draining" /\ rpc'[r] = "idle" /\ take[r] # Unlimited

\* The n of the drain_limit(n) call receiver r is in.
Limit(r) == take[r] + Len(buf[r])

\* The Vec the receive call of r returns in this step.
Returned(r) == SubSeq(delivered'[r], Len(delivered[r]) + 1, Len(delivered'[r]))

\* C12: drain_limit(n) takes messages off the front of the queue only, one
\* after the other, and returns them in that order; it returns at most n, and
\* fewer than n only when it found the queue empty; drain_limit(0) returns an
\* empty list and leaves the queue alone.  When r is the only receiver to have
\* taken messages, what it was given so far followed by what is still queued
\* is exactly what was accepted, and the drain() that follows gives it the
\* rest: nothing lost, nothing twice, order kept across the calls.
C12_DrainLimitPartitions ==
    [][\A r \in ReceiverIds :
          /\ (rpc[r] = "draining" /\ GotNext(r) # Got(r)) =>
                 /\ channel.queue # <<>>
                 /\ GotNext(r) = Append(Got(r), Head(channel.queue))
                 /\ channel'.queue = Tail(channel.queue)
          /\ DrainLimitReturns(r) =>
                 /\ Len(Returned(r)) <= Limit(r)
                 /\ Len(Returned(r)) < Limit(r) => channel.queue = <<>>
                 /\ Limit(r) = 0 => Returned(r) = <<>> /\ channel' = channel
                 /\ GotNext(r) = Got(r) => channel' = channel
                 /\ (\A q \in ReceiverIds \ {r} : Got(q) = <<>>) =>
                        delivered'[r] \o channel'.queue = accepted'
          /\ (DrainReturns(r) /\ \A q \in ReceiverIds \ {r} : Got(q) = <<>>) =>
                 delivered'[r] = accepted' /\ channel'.queue = <<>>]_vars

\* C12 witness: a drain_limit, the first receive call on the channel, has
\* returned the oldest message and left a later one queued.
C12_Witness ==
    \E r \in ReceiverIds :
        /\ last_recv = "drain_limit"
        /\ recv_calls = 1
        /\ rpc[r] = "idle"
        /\ Len(accepted) >= 2
        /\ delivered[r] = <<accepted[1]>>
        /\ channel.queue = Tail(accepted)

\* Every receiver handle, the original and its clones, has been dropped.
AllReceiversDropped == \A r \in ReceiverIds : ~r_alive[r]

\* C13: send(msg) returns MessageSenderDisconnected exactly when every
\* receiver handle has been dropped, never while one is alive; the handles
\* stay dropped, so every later send fails the same way, and a failed send
\* leaves the queue as it is.
C13_DisconnectedIffNoReceiver ==
    [][/\ (SendStep /\ send_result' # "lossy") =>
              /\ (send_result' = "MessageSenderDisconnected") <=> AllReceiversDropped
              /\ send_result' = "MessageSenderDisconnected" =>
                     channel'.queue = channel.queue /\ next_msg \in rejected'
       /\ AllReceiversDropped => AllReceiversDropped' /\ channel'.receivers = 0]_vars

\* C13 witness: messages were accepted, then the last receiver went, and the
\* two sends made since both came back Disconnected.
C13_Witness ==
    /\ send_result = "MessageSenderDisconnected"
    /\ AllReceiversDropped
    /\ accepted = <<1, 2>>
    /\ rejected = {3, 4}

\* The step of a try_recv() call.
TryRecvStep == recv_calls' = recv_calls + 1 /\ last_recv' = "try_recv"

\* C14: try_recv() on a non-empty queue gives its caller the oldest message
\* and leaves the others queued in order; on an empty queue it gives None and
\* changes nothing.
C14_TryRecvTakesOldest ==
    [][TryRecvStep =>
          IF channel.queue = <<>>
          THEN channel' = channel /\ delivered' = delivered
          ELSE /\ channel'.queue = Tail(channel.queue)
               /\ \E r \in ReceiverIds :
                      delivered' = [delivered EXCEPT
                                       ![r] = Append(@, Head(channel.queue))]]_vars

\* C14 witness: a try_recv, the first receive call on the channel, returned
\* the first of two queued messages and the second is still queued.
C14_Witness ==
    \E r \in ReceiverIds :
        /\ last_recv = "try_recv"
        /\ recv_calls = 1
        /\ Len(accepted) >= 2
        /\ delivered[r] = <<accepted[1]>>
        /\ channel.queue = Tail(accepted)

\* The messages the receivers of S have taken off the queue, counted.
RECURSIVE TotalGot(_)
TotalGot(S) ==
    IF S = {} THEN 0
    ELSE LET r == CHOOSE x \in S : TRUE IN Len(Got(r)) + TotalGot(S \ {r})

\* C15: while the channel has a receiver, pending() is the number of accepted
\* messages not yet received, is_empty() holds exactly when pending() is 0,
\* is_full() exactly when pending() equals capacity(), and the receiver half
\* reports the same four values as the sender half.
C15_IntrospectionAgrees ==
    /\ channel.receivers > 0 =>
           Pending(channel) = Len(accepted) - TotalGot(ReceiverIds)
    /\ IsEmpty(channel) <=> (Pending(channel) = 0)
    /\ IsFull(channel) <=> (Pending(channel) = Capacity(channel))
    /\ ReceiverPending(channel) = Pending(channel)
    /\ ReceiverCapacity(channel) = Capacity(channel)
    /\ ReceiverIsEmpty(channel) = IsEmpty(channel)
    /\ ReceiverIsFull(channel) = IsFull(channel)

\* C15 witness: after sends and receives the queue of capacity 2 holds one
\* message: neither empty nor full, with messages already received.
C15_Witness ==
    /\ given_capacity = 2
    /\ Pending(channel) = 1
    /\ ~IsEmpty(channel) /\ ~IsFull(channel)
    /\ TotalGot(ReceiverIds) >= 2
    /\ channel.receivers > 0

\* ------------------------------------------------------ claims: Runtime
\* C1: neither loop waits for the other: wherever the worker is in a tick,
\* its next operation (try_recv of the drain, a send of the step function,
\* the store) can be taken whatever the consumer has or has not done, also
\* on a full worker-to-consumer channel; wherever the consumer is in a frame,
\* its next operation (try_recv of the drain, the load, a send_lossy) can be
\* taken whatever the worker does, also when it sits in the step function or
\* has ended.
C1_NeitherLoopWaits ==
    /\ wpc = "drain" => ENABLED WorkerDrainNext
    /\ (wpc = "step" /\ step_sent < MaxStepSends) => ENABLED StepSend
    /\ wpc = "store" => ENABLED WorkerStore
    /\ cpc = "drain" => ENABLED ConsumerDrainNext
    /\ cpc = "load" => ENABLED ConsumerLoad
    /\ (cpc = "send" /\ frame_sent < MaxFrameSends) => ENABLED ConsumerSend

\* C1 witness: the consumer has not run a single frame, the channel to it is
\* full, and the worker has completed a tick and is in the next one, about to
\* send on the full channel.
C1_Witness ==
    /\ frames = 0
    /\ cpc = "frame_start"
    /\ IsFull(sim_channel)
    /\ sim_channel.receivers > 0
    /\ ticks >= 1
    /\ wpc = "step"
    /\ step_sent < MaxStepSends

\* C16: when run() has returned, by whichever exit of the consumer loop (the
\* window was closed, or the presentation layer failed), the stop flag is set.
C16_StopSetOnEveryExit == cpc = "returned" => stop

\* C17: while run() polls after the stop flag was set: once the five seconds
\* have passed it can always return, with the worker not finished it returns
\* ShutdownTimeout and nothing else, and a ShutdownTimeout carries the
\* 5-second timeout.
C17_TimeoutAfterBudget ==
    /\ cpc = "poll" => stop
    /\ (cpc = "poll" /\ timed_out) => ENABLED ShutdownPoll
    /\ (cpc = "poll" /\ timed_out /\ worker_result = "running") =>
           /\ ENABLED (ShutdownPoll /\ run_result' = "ShutdownTimeout"
                                     /\ run_detail'.timeout = timeout)
           /\ ~ENABLED (ShutdownPoll /\ run_result' # "ShutdownTimeout")
    /\ (cpc = "poll" /\ ~timed_out /\ worker_result = "running") =>
           ~ENABLED ShutdownPoll
    /\ run_result = "ShutdownTimeout" =>
           stop /\ timed_out /\ run_detail.timeout = timeout

\* C17 witness: run() has returned ShutdownTimeout while the worker still
\* sits in its step function.
C17_Witness ==
    /\ run_result = "ShutdownTimeout"
    /\ run_detail.timeout = 5
    /\ wpc = "step"
    /\ worker_result = "running"

\* The step in which run() returns.
RunReturns == cpc # "returned" /\ cpc' = "returned"

\* C18: when run() returns after the worker's step function has panicked, it
\* returns SimulationPanic: never Ok, ShutdownTimeout or anything else.
C18_PanicBecomesSimulationPanic ==
    [][(RunReturns /\ worker_result = "Panic") =>
          run_result' = "SimulationPanic"]_vars

\* The description names the message p.
Mentions(description, p) == \E i \in 1..Len(description) : description[i] = p

\* C19: the description a SimulationPanic carries contains the message the
\* worker panicked with.
C19_DescriptionReflectsPayload ==
    run_result = "SimulationPanic" =>
        Mentions(run_detail.description, panic.payload)

\* The caller thread is inside gui.run().
InConsumerLoop == cpc \in {"frame_start", "drain", "load", "send"}

\* With the worker panicked and the caller inside gui.run(): run() has not
\* returned and the frame's next operation can be taken; a SimulationPanic is
\* there only once run() has returned.
ConsumerLoopGoesOn ==
    /\ (worker_result = "Panic" /\ InConsumerLoop) =>
           /\ run_result = "none"
           /\ cpc = "frame_start" => ENABLED GuiReturns(TRUE)
           /\ (cpc = "frame_start" /\ frames < MaxFrames) => ENABLED FrameBegin
           /\ cpc = "drain" => ENABLED ConsumerDrainNext
           /\ cpc = "load" => ENABLED ConsumerLoad
           /\ (cpc = "send" /\ frame_sent < MaxFrameSends) => ENABLED ConsumerSend
           /\ cpc = "send" => ENABLED FrameEnd
    /\ run_result = "SimulationPanic" =>
           worker_result = "Panic" /\ cpc = "returned"

\* C20: after a panic of the worker the consumer loop goes on: run() has
\* not returned, every operation of a frame can be taken, a load shows the
\* snapshot of the last store, a send leaves the channel as it is.  The panic
\* is reported, as SimulationPanic, only by the join in the shutdown loop,
\* after gui.run() has returned.
C20_PanicSurfacesAtJoinOnly ==
    [][/\ ConsumerLoopGoesOn /\ ConsumerLoopGoesOn'
       /\ worker_result = "Panic" =>
              /\ (cpc = "load" /\ cpc' = "send") => gui_seen' = ticks
              /\ frame_sent' = frame_sent + 1 => gui_channel' = gui_channel
              /\ run_result' # run_result =>
                     (cpc = "poll" <=> run_result' = "SimulationPanic")]_vars

\* C20 witness: the worker panicked before the consumer had completed a
\* frame; the consumer has since run two frames, the second of them entirely
\* after the panic, and sent in it.
C20_Witness ==
    /\ worker_result = "Panic"
    /\ panic.frames = 0
    /\ frames = 2
    /\ frame_sent = 1
    /\ cpc = "frame_start"
    /\ run_result = "none"

\* After a ShutdownTimeout the thread has not been joined and the worker can
\* take the next step of its loop.
WorkerLivesOn ==
    run_result = "ShutdownTimeout" =>
        /\ ~joined
        /\ wpc = "drain" => ENABLED WorkerDrainNext
        /\ wpc = "step" => ENABLED StepReturn
        /\ wpc = "store" => ENABLED WorkerStore
        /\ wpc = "sleep" => ENABLED WorkerSleep
        /\ wpc = "check_stop" => ENABLED WorkerCheckStop

\* C21: a ShutdownTimeout leaves the worker thread alone: the round that
\* returns it neither joins the thread nor changes where it is, and after
\* run() has returned the worker can still take every step of its loop
\* (return from the step function, publish, go on to its stop check).
C21_TimeoutLeavesWorkerRunning ==
    [][/\ WorkerLivesOn /\ WorkerLivesOn'
       /\ (RunReturns /\ run_result' = "ShutdownTimeout") =>
              /\ worker_result = "running" /\ worker_result' = "running"
              /\ wpc' = wpc
              /\ simulation_data' = simulation_data]_vars

\* C21 witness: run() returned ShutdownTimeout, and the worker, still running
\* then, has since published a snapshot.
C21_Witness ==
    /\ run_result = "ShutdownTimeout"
    /\ stores_after_stop >= 1
    /\ wpc = "sleep"
    /\ worker_result = "running"

\* C24: a message of the step function is enqueued on the worker-to-consumer
\* channel only after the snapshot of the same tick has been published.
C24_StoreBeforeSend ==
    [][(out_next' = out_next + 1 /\ sim_channel' # sim_channel) =>
          Deref(simulation_data, SharedLoad(simulation_data)) = ticks + 1]_vars

\* C25: the stop flag is never cleared; a worker that finds it set at the top
\* of a tick ends there, without a try_recv on the inbound channel, a step or
\* a store; so with the flag set at most one more step invocation begins and
\* at most one more snapshot is published.
C25_StopCheckedFirst ==
    [][/\ steps_after_stop' <= 1 /\ stores_after_stop' <= 1
       /\ stop => stop'
       /\ (wpc = "check_stop" /\ wpc' # wpc) =>
              IF stop
              THEN /\ wpc' = "ended" /\ worker_result' = "Ok"
                   /\ gui_channel'.queue = gui_channel.queue
                       \/ gui_channel'.queue = <<>>
                   /\ simulation_data' = simulation_data
                   /\ UNCHANGED <<w_buf, step_sent, out_next, ticks>>
              ELSE wpc' = "drain"
       /\ (wpc' = "drain" /\ wpc # "drain") => wpc = "check_stop" /\ ~stop]_vars

\* C25 witness: the flag was set in the middle of a tick; that tick's step
\* and store still ran, and the next stop check ended the worker.
C25_Witness ==
    /\ stop
    /\ steps_after_stop = 1
    /\ stores_after_stop = 1
    /\ worker_result = "Ok"

\* C26: run() returns Ok only after gui.run() returned Ok, the flag was set,
\* the worker left its loop through the stop check and was joined; never
\* while the thread runs; and a run has one outcome only.
C26_OkOnlyAfterCleanStop ==
    /\ run_result = "Ok" =>
           /\ cpc = "returned" /\ stop /\ joined
           /\ worker_result = "Ok" /\ wpc = "ended"
           /\ panic = NoPanic
           /\ run_detail = NoDetail
    /\ run_result = "SimulationPanic" => worker_result = "Panic" /\ joined
    /\ run_result = "ShutdownTimeout" => ~joined /\ timed_out
    /\ joined => worker_result # "running"
    /\ run_result # "none" <=> cpc = "returned"

\* C26 witness: run() returned Ok after the worker had completed ticks.
C26_Witness ==
    /\ run_result = "Ok"
    /\ ticks >= 1
    /\ frames >= 1

\* C27: a step function returning Err ends the thread at once: nothing is
\* published for that tick and no tick follows; the consumer loop goes on,
\* and when run() returns it returns that error.
C27_StepErrorPropagates ==
    [][/\ (wpc = "step" /\ worker_result' = "Err") =>
              wpc' = "ended" /\ simulation_data' = simulation_data
       /\ worker_result = "Err" =>
              /\ wpc' = "ended" /\ simulation_data' = simulation_data
              /\ ticks' = ticks
       /\ (RunReturns /\ worker_result = "Err") => run_result' = "StepError"]_vars

\* The worker's messages accepted by the channel so far, in order.
RECURSIVE OutAccepted(_)
OutAccepted(n) ==
    IF n = 0 THEN <<>>
    ELSE IF n \in out_refused THEN OutAccepted(n - 1)
    ELSE Append(OutAccepted(n - 1), n)

\* The worker can always return from its step function and publish; while
\* the consumer's receiver lives, what it received followed by what is queued
\* for it is the accepted messages in send order.
TickGoesOn ==
    /\ wpc = "step" => ENABLED StepReturn
    /\ wpc = "store" => ENABLED WorkerStore
    /\ sim_channel.receivers > 0 =>
           gui_got \o sim_channel.queue = OutAccepted(out_next - 1)

\* C28: a send of the step function on a full or disconnected channel drops
\* the message and nothing else: the queue is unchanged, the worker stays in
\* its step function, can return from it and publish; what the consumer has
\* received, followed by what is queued for it, is exactly the accepted
\* messages in the order they were sent.
C28_StepSendsLossy ==
    [][/\ TickGoesOn /\ TickGoesOn'
       /\ out_next' = out_next + 1 =>
              /\ wpc' = "step" /\ worker_result' = "running"
              /\ (sim_channel.receivers = 0 \/ IsFull(sim_channel)) =>
                     sim_channel' = sim_channel /\ out_next \in out_refused'
              /\ (sim_channel.receivers > 0 /\ ~IsFull(sim_channel)) =>
                     sim_channel'.queue = Append(sim_channel.queue, out_next)]_vars

\* C28 witness: the first message was accepted, the second dropped on the
\* full channel; the worker published the second tick's snapshot all the
\* same, and the consumer has received the first message.
C28_Witness ==
    /\ out_refused = {2}
    /\ gui_got = <<1>>
    /\ Deref(simulation_data, SharedLoad(simulation_data)) = 2
    /\ sim_channel.receivers > 0

\* The step in which thread t makes the install attempt of its update().
InstallAttempt(t) == tpc[t] = "rcu_cas" /\ tpc'[t] # "rcu_cas"

\* Writes by threads other than the writer of the k-th completed write that
\* completed before it.
OthersBefore(k) == Cardinality({j \in 1..(k - 1) : log[j].by # log[k].by})

\* A thread inside update() can always take its next step, and no update()
\* ran its closure more often than once plus the writes of other threads
\* completed before it.
UpdateNeverWaits ==
    /\ \A t \in Threads :
           /\ tpc[t] = "rcu_f" => ENABLED RcuApply(t)
           /\ tpc[t] = "rcu_cas" => ENABLED RcuCas(t)
    /\ \A k \in 1..Len(log) :
           log[k].kind = "update" => log[k].runs <= 1 + OthersBefore(k)

\* C30: an install attempt of update() fails, and the closure runs again,
\* exactly when a write was installed on the cell after the pointer it loaded
\* (so a failure means another writer completed); otherwise it installs its
\* value and the call completes; a thread inside update() never waits, and
\* an update() with no write of another thread in between runs its closure
\* once.
C30_UpdateLockFree ==
    [][/\ UpdateNeverWaits /\ UpdateNeverWaits'
       /\ \A t \in Threads :
              InstallAttempt(t) =>
                  /\ (tpc'[t] = "rcu_f") <=> (Len(shared.arcs) > cur[t])
                  /\ tpc'[t] = "rcu_f" =>
                         /\ shared' = shared
                         /\ attempts'[t] = attempts[t] + 1
                         /\ \E k \in 1..Len(log) : log[k].by # t
                  /\ tpc'[t] = "idle" =>
                         /\ Len(shared'.arcs) = Len(shared.arcs) + 1
                         /\ Deref(shared', SharedLoad(shared')) = new_data[t]
                         /\ Len(log') = Len(log) + 1
                         /\ log'[Len(log')].by = t
                         /\ log'[Len(log')].runs = attempts[t]]_vars

\* C30 witness: an update() had its first attempt fail because of a store()
\* of another thread and completed on its second run.
C30_Witness ==
    \E k \in 2..Len(log) :
        /\ log[k].kind = "update"
        /\ log[k].runs = 2
        /\ log[k - 1].kind = "store"
        /\ log[k - 1].by # log[k].by

\* ------------------------------------------------------- claims: Pacing
Longer(a, b) == IF a >= b THEN a ELSE b

\* The tick the log ends with.
LastTick == tick_log[Len(tick_log)]

\* The worker saw the stop flag; the time from its store to that check.
StopSeen == seen_at # NotYet
Latency == seen_at - stop_at

\* No tick begins once the flag is set: the check comes first in every tick.
NoTickAfterStop == stop_at # NotYet => delta <= stop_at

\* C23: with period = floor(1000 / FREQUENCY_IN_HZ) ms (33 at 30 Hz, 16 at
\* 60 Hz, 100 at 10 Hz), every tick is followed by a sleep of
\* max(0, period - time spent), the time spent being counted from the start
\* of that tick; the sleep is never negative; the next tick starts right
\* after the sleep, so an overrun tick is followed at once by the next one
\* and no later tick is shortened or added to make up for it.
C23_SleepsTheRemainder ==
    /\ frequency(30) = 33 /\ frequency(60) = 16 /\ frequency(10) = 100
    /\ ppc = "work" => delta = clock
    /\ ppc = "sleep" => clock - delta \in StepDurations
    /\ \A i \in 1..Len(tick_log) :
           LET t == tick_log[i] IN
               /\ t.spent \in StepDurations
               /\ t.slept >= 0
               /\ t.slept = Longer(0, frequency(hz) - t.spent)
               /\ t.start = IF i = 1 THEN 0
                            ELSE tick_log[i - 1].start
                                 + Longer(frequency(hz), tick_log[i - 1].spent)

\* At 30 Hz a tick of 40 ms sleeps 0 ms and the next one, of 10 ms, starts
\* at once and sleeps its own 23 ms.
C23_Witness ==
    /\ hz = 30
    /\ Len(tick_log) >= 2
    /\ tick_log[1] = [start |-> 0, spent |-> 40, slept |-> 0]
    /\ tick_log[2] = [start |-> 40, spent |-> 10, slept |-> 23]

\* C22, as stated: once the stop flag is set the worker observes it and
\* leaves its loop within one tick period, 1000 / FREQUENCY_IN_HZ ms.
C22_StopSeenWithinPeriod == StopSeen => Latency <= frequency(hz)

\* C22, amended: the flag is polled once per tick, before anything else; once
\* it is set the worker starts no further tick and sees it at the end of the
\* tick in progress, that is within max(period, time the tick's work takes):
\* within one period when the work fits in the period.
C22_StopSeenWithinTick ==
    /\ NoTickAfterStop
    /\ StopSeen =>
           /\ ppc = "exited"
           /\ Latency >= 0
           /\ Latency <= IF tick_log = <<>> THEN 0
                         ELSE Longer(frequency(hz), LastTick.spent)
           /\ (tick_log # <<>> /\ LastTick.spent <= frequency(hz)) =>
                  Latency <= frequency(hz)

\* The flag was set right after the check of a tick whose work overran the
\* period, and was seen only when that work was done.
C22_Witness ==
    /\ StopSeen
    /\ tick_log # <<>>
    /\ stop_at = LastTick.start
    /\ LastTick.spent > frequency(hz)
    /\ Latency = LastTick.spent

\* ----------------------------------------------------- claims: Shutdown
\* The budget of the shutdown loop in milliseconds.
Budget == timeout * MillisPerSec

\* C29: once gui.run() has returned Ok, run() returns within the 5 s budget
\* plus one 10 ms poll, whatever the worker does: no round of the shutdown
\* loop blocks, each sleeps 10 ms, and the first round that finds the budget
\* used up returns, even with the worker still inside the step function.
C29_ShutdownBounded ==
    /\ start_elapsed = rounds * PollInterval
    /\ start_elapsed <= Budget + PollInterval
    /\ cpc = "poll" => ENABLED ShutdownPoll \/ ENABLED PollSleep
    /\ (cpc = "poll" /\ start_elapsed >= Budget) =>
           ENABLED ShutdownPoll /\ ~ENABLED PollSleep
    /\ cpc = "returned" =>
           /\ run_result # "none"
           /\ wpc # "ended" => run_result = "ShutdownTimeout"

\* The step function never returned and run() gave up on it at 5 s.
C29_Witness ==
    /\ cpc = "returned"
    /\ run_result = "ShutdownTimeout"
    /\ wpc = "step"
    /\ start_elapsed = Budget
    /\ ticks = 0

====
